---- MODULE Spec2Model ----
(***************************************************************************)
(* EasySwapBackend: wallet-signature authentication.                       *)
(*                                                                         *)
(* The module models address canonicalisation (common.UnifyAddress), the   *)
(* three user handlers of api/v1 (login message, login, signature status)  *)
(* and the store of pending challenges and sessions they work on.          *)
(*                                                                         *)
(* Strings are sequences of one-character strings.  An address is the      *)
(* prefix "0x" followed by HexLen hexadecimal digits.                      *)
(***************************************************************************)
EXTENDS Integers, Sequences, FiniteSets, TLC

\* ------------------------------------------------------------------ bounds
\* Number of hexadecimal digits of an address (40 in the program); more than
\* two, so that an address without its prefix is longer than the prefix.
HexLen == 3
\* Last instant of the clock.
MaxTime == 1
\* Number of challenges that are issued in one behaviour.
MaxNonce == 2
\* Number of Login requests that are in flight at the same time.
MaxReqs == 2
\* Lifetime of a pending challenge and of a session, in clock instants.
ChallengeTTL == 1
SessionTTL == 1

\* --------------------------------------------------------------- characters
Prefix == <<"0", "x">>
LowerLetters == {"a", "b"}
UpperLetters == {"A", "B"}
Digits == {"0", "1"}
HexChars == Digits \cup LowerLetters \cup UpperLetters

\* strings.ToLower / strings.ToUpper on one character
LowerChar(c) == CASE c = "A" -> "a" [] c = "B" -> "b" [] OTHER -> c
UpperChar(c) == CASE c = "a" -> "A" [] c = "b" -> "B" [] OTHER -> c
ToLower(s) == [i \in 1..Len(s) |-> LowerChar(s[i])]
ToUpper(s) == [i \in 1..Len(s) |-> UpperChar(s[i])]

\* Value of a lower-case hexadecimal digit.
Nibble(c) == CASE c = "0" -> 0 [] c = "1" -> 1 [] c = "a" -> 10 [] c = "b" -> 11
               [] OTHER -> 0

RECURSIVE SumNibbles(_)
SumNibbles(s) == IF s = <<>> THEN 0 ELSE Nibble(Head(s)) + SumNibbles(Tail(s))

\* Stand-in for the i-th nibble of Keccak256 of the lower-case digits: a fixed
\* function of the lower-case digits alone.
HashNibble(lower, i) == (7 * SumNibbles(lower) + 5 * i + 3 * Nibble(lower[i])) % 16

\* has0xPrefix of go-ethereum, on the characters of the model
Has0xPrefix(s) == Len(s) >= 2 /\ s[1] = "0" /\ s[2] = "x"
StripPrefix(s) == IF Has0xPrefix(s) THEN SubSeq(s, 3, Len(s)) ELSE s
IsHex(s) == \A i \in 1..Len(s) : s[i] \in HexChars

\* ----------------------------------------------------------------- clients
\* The accounts of the clients: digits c b b ... of length HexLen.
Pad(c) == [i \in 1..HexLen |-> IF i = 1 THEN c ELSE "b"]
ClientBodies == {Pad("a"), Pad("1")}
\* What clients send as an address: each account in lower case, one also in
\* upper case, the bare prefix, and the empty string.
ClientAddrs ==
    {Prefix \o b : b \in ClientBodies} \cup {Prefix \o ToUpper(Pad("a")), Prefix, <<>>}
\* A store is a map from the keys in use to their entries.
Lookup(store, k) == IF k \in DOMAIN store THEN <<store[k]>> ELSE <<>>
Put(store, k, v) == [x \in DOMAIN store \cup {k} |-> IF x = k THEN v ELSE store[x]]
Remove(store, k) == [x \in DOMAIN store \ {k} |-> store[x]]
NoEntries == [x \in {} |-> 0]

\* The strings given to UnifyAddress: an optional 0x, then up to HexLen + 1
\* characters, one of which ("g") is no hexadecimal digit.
BodyChars == {"1", "a", "b", "A", "B", "g"}
Bodies == UNION {[1..n -> BodyChars] : n \in 0..(HexLen + 1)}
RawInputs == {p \o b : p \in {<<>>, Prefix}, b \in Bodies}
\* The address no client holds the key of.
GarbageAddr == Prefix \o [i \in 1..HexLen |-> "0"]

\* An optional 0x prefix, then exactly HexLen hexadecimal digits.
HexAddress(s) == Len(StripPrefix(s)) = HexLen /\ IsHex(StripPrefix(s))

\* ------------------------------------------------------------------- errors
Nil == "nil"
\* errors.Wrap of github.com/pkg/errors: wrapping a nil error gives nil
Wrap(err, text) == IF err = Nil THEN Nil ELSE text

\* The EIP-55 form of lower-case digits under a nibble function.
CheckSumWith(lower, flip) ==
    Prefix \o [i \in 1..Len(lower) |->
                 IF lower[i] \in LowerLetters
                      /\ (HashNibble(lower, i) + flip) % 16 >= 8
                 THEN UpperChar(lower[i]) ELSE lower[i]]

\* EIP-55: strip 0x, decode the hex digits, derive the mixed case from the
\* hash of the lower-case digits (flip = 0), or from another hash (flip = 8).
EIP55(address, flip) ==
    IF address = <<>> \/ ~IsHex(StripPrefix(address))
    THEN [addr |-> <<>>, err |-> "invalid hex"]
    ELSE [addr |-> CheckSumWith(ToLower(StripPrefix(address)), flip), err |-> Nil]
\* The strings the handlers meet, and for each of them the two derivations,
\* computed once.
Hot == ClientAddrs \cup {EIP55(a, 0).addr : a \in ClientAddrs} \cup {GarbageAddr}
CheckSumTable == [a \in Hot |-> EIP55(a, 0)]
OtherSumTable == [a \in Hot |-> EIP55(a, 8)]
LowerDigits == [a \in Hot |-> ToLower(StripPrefix(a))]
HotHexAddresses == {a \in Hot : HexAddress(a)}

\* The account an address spells: its digits in lower case.
AccountOf(a) == IF a \in Hot THEN LowerDigits[a] ELSE ToLower(StripPrefix(a))

\* common.IsHexAddress
IsHexAddress(s) == IF s \in Hot THEN s \in HotHexAddresses ELSE HexAddress(s)

\* eip.ToCheckSumAddress
ToCheckSumAddress(address) ==
    IF address \in Hot THEN CheckSumTable[address] ELSE EIP55(address, 0)

\* ------------------------------------------------------------------- state
VARIABLES
    skew,       \* lower-case digit strings on which the second pass disagrees
    input,      \* canonicalisation run: the raw string given
    out1,       \* canonicalisation run: UnifyAddress(input)
    out2,       \* canonicalisation run: UnifyAddress(out1.addr)
    spelt,      \* canonicalisation run: another spelling of input
    out3,       \* canonicalisation run: UnifyAddress(spelt)
    phase,      \* canonicalisation run: "raw", "once", "twice" or "respelt"
    now,        \* the clock
    pending,    \* store: key -> challenge
    session,    \* store: key -> session
    nextNonce,  \* the next fresh nonce
    nextToken,  \* the next fresh session token
    reqs,       \* the Login requests in flight
    resp,       \* the last response of the login-message / sig-status handlers
    issued,     \* history: every challenge message issued
    consumed,   \* history: nonces of the challenges ConsumePending has taken
    granted,    \* history: nonce -> number of Login responses that were OK,
                \* counted up to 2
    written     \* history: nonce -> number of sessions PutSession has written
                \* for Logins that carried the challenge, counted up to 2

addrVars == <<input, out1, out2, spelt, out3, phase>>
authVars == <<now, pending, session, nextNonce, nextToken, reqs, resp,
              issued, consumed, granted, written>>
vars == <<skew, input, out1, out2, spelt, out3, phase, now, pending, session, nextNonce,
          nextToken, reqs, resp, issued, consumed, granted,
          written>>

\* ------------------------------------------------------------ canonicalise
\* utils.ToValidateAddress: the second, independent derivation of the mixed
\* case of an address; it disagrees with the first on the digits in skew.
ToValidateAddress(addr) ==
    IF addr \in Hot
    THEN IF LowerDigits[addr] \in skew THEN OtherSumTable[addr].addr
         ELSE CheckSumTable[addr].addr
    ELSE EIP55(addr, IF ToLower(StripPrefix(addr)) \in skew THEN 8 ELSE 0).addr

\* UnifyAddress returning its argument where it should return the checksummed
\* form.
UnifyAddressReturnsInput(address) ==
    IF Len(address) <= 2 \/ ~IsHexAddress(address)
    THEN [addr |-> <<>>, err |-> "user address is illegal"]
    ELSE LET c == ToCheckSumAddress(address)
         IN  IF c.err # Nil
             THEN [addr |-> <<>>, err |-> Wrap(c.err, "invalid address")]
             ELSE IF c.addr # ToValidateAddress(c.addr)
                  THEN [addr |-> <<>>, err |-> Wrap(c.err, "failed on unify address")]
                  ELSE [addr |-> address, err |-> Nil]

\* common.UnifyAddress
UnifyAddress(address) ==
    IF Len(address) <= 2 \/ ~IsHexAddress(address)
    THEN [addr |-> <<>>, err |-> "user address is illegal"]
    ELSE LET c == ToCheckSumAddress(address)
         IN  IF c.err # Nil
             THEN [addr |-> <<>>, err |-> Wrap(c.err, "invalid address")]
             ELSE IF c.addr # ToValidateAddress(c.addr)
                  THEN [addr |-> <<>>, err |-> Wrap(c.err, "failed on unify address")]
                  ELSE [addr |-> c.addr, err |-> Nil]

\* ------------------------------------------------------------- messages
NoMsg == [nonce |-> 0, addr |-> <<>>, ts |-> 0]
\* A message a client makes up: never issued by the server.
ForgedMsg == [nonce |-> 0, addr |-> Prefix, ts |-> 0]
\* A signature: who signed, what was signed, and whether the encoding is sound.
NoSig == [signer |-> <<>>, msg |-> NoMsg, ok |-> FALSE]
Signatures(msg) ==
    {[signer |-> b, msg |-> msg, ok |-> TRUE] : b \in ClientBodies}
        \cup {NoSig}
\* A challenge superseded by a later one for the same address.
Superseded(m) == \E m2 \in issued : m2.addr = m.addr /\ m2.nonce > m.nonce

\* ------------------------------------------------------------ SessionStore
\* A pending challenge; asked is history, read by no operation: the spelling
\* of the address the challenge was asked with.
Challenge(msg, t, raw) ==
    [message |-> msg, issuedAt |-> t, expiresAt |-> t + ChallengeTTL, asked |-> raw]
Session(tok, t) == [token |-> tok, createdAt |-> t, expiresAt |-> t + SessionTTL]
\* An entry is live while its expiry is ahead, reaped or not.
Live(entry) == entry # <<>> /\ now < entry[1].expiresAt

PutPending(addr, ch) == Put(pending, addr, ch)
GetPending(addr) == IF Live(Lookup(pending, addr)) THEN Lookup(pending, addr) ELSE <<>>
\* Read and remove in one step.
ConsumePending(addr) ==
    [found |-> GetPending(addr) # <<>>,
     challenge |-> GetPending(addr),
     store |-> IF GetPending(addr) # <<>> THEN Remove(pending, addr) ELSE pending]
PutSession(addr, s) == Put(session, addr, s)
GetSession(addr) == IF Live(Lookup(session, addr)) THEN Lookup(session, addr) ELSE <<>>
DeleteSession(addr) == Remove(session, addr)

\* ------------------------------------------------------- SignatureVerifier
\* The address recovered from a signature over a message.
Recover(message, sig) == IF sig.msg = message THEN Prefix \o sig.signer ELSE GarbageAddr
Verify(message, sig, claimed) ==
    IF ~sig.ok THEN "MalformedSignature"
    ELSE LET rec == UnifyAddress(Recover(message, sig))
         IN  IF rec.err # Nil \/ rec.addr # claimed THEN "SignatureInvalid" ELSE Nil

\* ------------------------------------------------------------- AuthService
\* service.GetUserLoginMsg: canonicalise, make the message, put it as pending.
GetUserLoginMsg(raw) ==
    LET u == UnifyAddress(raw)
        m == [nonce |-> nextNonce, addr |-> u.addr, ts |-> now]
    IN  IF u.err # Nil
        THEN [err |-> "InvalidAddressFormat", address |-> <<>>, message |-> NoMsg,
              store |-> pending]
        ELSE [err |-> Nil, address |-> u.addr, message |-> m,
              store |-> PutPending(u.addr, Challenge(m, now, raw))]

\* service.GetSigStatusMsg: canonicalise, look the session up.
GetSigStatusMsg(raw) ==
    LET u == UnifyAddress(raw)
    IN  IF u.err # Nil
        THEN [err |-> "InvalidAddressFormat", address |-> <<>>, signed |-> FALSE]
        ELSE [err |-> Nil, address |-> u.addr, signed |-> GetSession(u.addr) # <<>>]

\* What a Login request met when it called ConsumePending (reached): a live
\* entry (live), an entry holding the message of the request (match), the
\* message's lifetime over (expired), the message consumed before (consumed), a
\* Login granted for the message before (granted), the message superseded by a
\* later challenge (superseded); whether the signature of the request is one
\* Verify accepts (sigok), and whether it was made with the key of the account
\* the request's address spells (own); whether, besides, the message is that of
\* a live pending challenge asked with a spelling of the request's address
\* (entitled), and with another spelling than the request's (respelt).
NoSnap == [reached |-> FALSE, live |-> FALSE, match |-> FALSE, expired |-> FALSE,
           consumed |-> FALSE, granted |-> FALSE, superseded |-> FALSE,
           sigok |-> FALSE, own |-> FALSE, entitled |-> FALSE, respelt |-> FALSE]
\* Two spellings of one string: they differ in letter case at most.
SameLetters(a, b) == Len(a) = Len(b) /\ ToLower(a) = ToLower(b)
\* Two spellings of one address.
SameAccount(a, b) == Has0xPrefix(a) = Has0xPrefix(b) /\ AccountOf(a) = AccountOf(b)
\* The spellings with which the live pending challenges of a message were asked.
AskedWith(msg) ==
    {pending[k].asked : k \in {x \in DOMAIN pending :
                                  Live(<<pending[x]>>) /\ pending[x].message = msg}}
Response(op, kind, nonce, signed, snap) ==
    [op |-> op, kind |-> kind, nonce |-> nonce, signed |-> signed, snap |-> snap]
NoResp == Response("none", Nil, 0, FALSE, NoSnap)

\* ---------------------------------------------------------------- handlers
\* GetLoginMessageHandler ending the address's session when it issues a
\* challenge.
GetLoginMessageHandlerDropsSession(raw) ==
    /\ raw # <<>>
    /\ LET res == GetUserLoginMsg(raw)
       IN  /\ res.err = Nil
           /\ nextNonce <= MaxNonce
           /\ pending' = res.store
           /\ session' = DeleteSession(res.address)
           /\ issued' = issued \cup {res.message}
           /\ nextNonce' = nextNonce + 1
           /\ resp' = Response("login-message", "ok", res.message.nonce, FALSE, NoSnap)
           /\ UNCHANGED <<skew, addrVars, now, nextToken, reqs, consumed, granted,
                          written>>

\* GetLoginMessageHandler, GET /user/:address/login-message
GetLoginMessageHandler(raw) ==
    IF raw = <<>>
    THEN /\ resp' = Response("login-message", "address is empty", 0, FALSE, NoSnap)
         /\ UNCHANGED <<skew, addrVars, now, pending, session, nextNonce, nextToken,
                        reqs, issued, consumed, granted, written>>
    ELSE LET res == GetUserLoginMsg(raw)
         IN  /\ res.err = Nil => nextNonce <= MaxNonce
             /\ pending' = res.store
             /\ issued' = IF res.err = Nil THEN issued \cup {res.message} ELSE issued
             /\ nextNonce' = IF res.err = Nil THEN nextNonce + 1 ELSE nextNonce
             /\ resp' = IF res.err # Nil
                        THEN Response("login-message", res.err, 0, FALSE, NoSnap)
                        ELSE Response("login-message", "ok", res.message.nonce, FALSE, NoSnap)
             /\ UNCHANGED <<skew, addrVars, now, session, nextToken, reqs, consumed,
                            granted, written>>

\* GetSigStatusHandler, GET /user/:address/sig-status
GetSigStatusHandler(raw) ==
    /\ resp' = IF raw = <<>>
               THEN Response("sig-status", "address is empty", 0, FALSE, NoSnap)
               ELSE LET res == GetSigStatusMsg(raw)
                    IN  IF res.err # Nil
                        THEN Response("sig-status", res.err, 0, FALSE, NoSnap)
                        ELSE Response("sig-status", "ok", 0, res.signed, NoSnap)
    /\ UNCHANGED <<skew, addrVars, now, pending, session, nextNonce, nextToken, reqs,
                   issued, consumed, granted, written>>

\* A Login request in flight: where it stands, what it carries, and what its
\* ConsumePending met.
IdleReq == [pc |-> "idle", key |-> <<>>, msg |-> NoMsg, sig |-> NoSig, snap |-> NoSnap]
Reqs == 1..MaxReqs
\* Requests are interchangeable: a new one takes the first free place.
FirstIdle(r) == reqs[r].pc = "idle" /\ \A r2 \in 1..(r - 1) : reqs[r2].pc # "idle"
FreeReqs == {r \in Reqs : FirstIdle(r)}

\* UserLoginHandler answering OK without looking at the service's error.
LoginResponseIgnoresErr(err, token) == [kind |-> "ok", token |-> token]

\* What UserLoginHandler answers for the service's result.
LoginResponse(err, token) ==
    IF err # Nil THEN [kind |-> err, token |-> 0] ELSE [kind |-> "ok", token |-> token]

\* A history counter of a nonce, counted up to 2.
Count(f, n) == IF f[n] < 2 THEN [f EXCEPT ![n] = @ + 1] ELSE f

\* The request r ends with the service's result (err, token).
Finish(r, msg, snap, err, token) ==
    LET a == LoginResponse(err, token)
    IN  /\ reqs' = [reqs EXCEPT ![r] = IdleReq]
        /\ resp' = Response("login", a.kind, msg.nonce, FALSE, snap)
        /\ granted' = IF a.kind = "ok" /\ granted[msg.nonce] < 2
                      THEN [granted EXCEPT ![msg.nonce] = @ + 1] ELSE granted

\* UserLoginHandler, POST /user/login: bind, validate, canonicalise, consume.
LoginStart(r, bound, raw, msg, sig) ==
    /\ FirstIdle(r)
    /\ IF ~bound
       THEN /\ Finish(r, NoMsg, NoSnap, "bad request body", 0)
            /\ UNCHANGED <<pending, consumed>>
       ELSE LET u == UnifyAddress(raw)
            IN  IF u.err # Nil
                THEN /\ Finish(r, NoMsg, NoSnap, "InvalidAddressFormat", 0)
                     /\ UNCHANGED <<pending, consumed>>
                ELSE LET c == ConsumePending(u.addr)
                         entry == Lookup(pending, u.addr)
                         snap == [reached |-> TRUE,
                                  live |-> Live(entry),
                                  match |-> entry # <<>> /\ entry[1].message = msg,
                                  expired |-> msg \in issued
                                                /\ now >= msg.ts + ChallengeTTL,
                                  consumed |-> msg.nonce \in consumed,
                                  granted |-> granted[msg.nonce] > 0,
                                  superseded |-> Superseded(msg),
                                  sigok |-> Verify(msg, sig, u.addr) = Nil,
                                  own |-> sig.signer = AccountOf(raw),
                                  entitled |->
                                      /\ sig.signer = AccountOf(raw)
                                      /\ \E a \in AskedWith(msg) :
                                            SameAccount(a, raw),
                                  respelt |->
                                      /\ sig.signer = AccountOf(raw)
                                      /\ \E a \in AskedWith(msg) :
                                            SameAccount(a, raw) /\ a # raw]
                     IN  /\ pending' = c.store
                         /\ consumed' = IF c.found
                                        THEN consumed \cup {c.challenge[1].message.nonce}
                                        ELSE consumed
                         /\ IF ~c.found \/ c.challenge[1].message # msg
                            THEN Finish(r, msg, snap, "ChallengeNotFound", 0)
                            ELSE /\ reqs' = [reqs EXCEPT ![r] =
                                               [pc |-> "verify", key |-> u.addr,
                                                msg |-> msg, sig |-> sig, snap |-> snap]]
                                 /\ UNCHANGED <<resp, granted>>
    /\ UNCHANGED <<skew, addrVars, now, session, nextNonce, nextToken, issued,
                   written>>

\* UserLogin, step 3: verify the signature.
LoginVerify(r) ==
    /\ reqs[r].pc = "verify"
    /\ LET q == reqs[r]
           v == Verify(q.msg, q.sig, q.key)
       IN  IF v # Nil
           THEN Finish(r, q.msg, q.snap, v, 0)
           ELSE /\ reqs' = [reqs EXCEPT ![r].pc = "put"]
                /\ UNCHANGED <<resp, granted>>
    /\ UNCHANGED <<skew, addrVars, now, pending, session, nextNonce, nextToken,
                   issued, consumed, written>>

\* UserLogin, steps 4 to 6: make the token, put the session, answer.
LoginPut(r) ==
    /\ reqs[r].pc = "put"
    /\ LET q == reqs[r]
       IN  /\ session' = PutSession(q.key, Session(nextToken, now))
           /\ Finish(r, q.msg, q.snap, Nil, nextToken)
    /\ nextToken' = nextToken + 1
    /\ written' = Count(written, reqs[r].msg.nonce)
    /\ UNCHANGED <<skew, addrVars, now, pending, nextNonce, issued, consumed>>

\* Logout: canonicalise, delete the session.
Logout(raw) ==
    /\ UnifyAddress(raw).err = Nil
    /\ session' = DeleteSession(UnifyAddress(raw).addr)
    /\ UNCHANGED <<skew, addrVars, now, pending, nextNonce, nextToken, reqs, resp,
                   issued, consumed, granted, written>>

\* ------------------------------------------------------------------- store
\* The clock advances.
Tick ==
    /\ now < MaxTime
    /\ now' = now + 1
    /\ UNCHANGED <<skew, addrVars, pending, session, nextNonce, nextToken, reqs, resp,
                   issued, consumed, granted, written>>

\* The store removes the expired entries of a key.
Reap(k) ==
    /\ \/ k \in DOMAIN pending /\ ~Live(Lookup(pending, k))
       \/ k \in DOMAIN session /\ ~Live(Lookup(session, k))
    /\ pending' = IF Lookup(pending, k) # <<>> /\ ~Live(Lookup(pending, k))
                  THEN Remove(pending, k) ELSE pending
    /\ session' = IF Lookup(session, k) # <<>> /\ ~Live(Lookup(session, k))
                  THEN Remove(session, k) ELSE session
    /\ UNCHANGED <<skew, addrVars, now, nextNonce, nextToken, reqs, resp, issued,
                   consumed, granted, written>>

\* ------------------------------------------------------------ specification
\* What a Login request carries: any message issued or a made-up one, with any
\* signature; with an address no longer than the prefix, which is refused
\* whatever else is sent, one message and one signature.
LoginMsgs(raw) == IF Len(raw) <= 2 THEN {ForgedMsg} ELSE issued \cup {ForgedMsg}
LoginSigs(raw, msg) == IF Len(raw) <= 2 THEN {NoSig} ELSE Signatures(msg)
NoOut == [addr |-> <<>>, err |-> Nil]
Init ==
    /\ skew \in {{}, ClientBodies}
    /\ input = <<>>
    /\ out1 = NoOut
    /\ out2 = NoOut
    /\ spelt = <<>>
    /\ out3 = NoOut
    /\ phase = "raw"
    /\ now = 0
    /\ pending = NoEntries
    /\ session = NoEntries
    /\ nextNonce = 1
    /\ nextToken = 1
    /\ reqs = [r \in Reqs |-> IdleReq]
    /\ resp = NoResp
    /\ issued = {}
    /\ consumed = {}
    /\ granted = [n \in 0..MaxNonce |-> 0]
    /\ written = [n \in 0..MaxNonce |-> 0]

Next ==
    \/ \E raw \in ClientAddrs : GetLoginMessageHandler(raw)
    \/ \E raw \in ClientAddrs : GetSigStatusHandler(raw)
    \/ \E r \in FreeReqs : LoginStart(r, FALSE, <<>>, NoMsg, NoSig)
    \/ \E r \in FreeReqs, raw \in ClientAddrs : \E msg \in LoginMsgs(raw) :
          \E sig \in LoginSigs(raw, msg) : LoginStart(r, TRUE, raw, msg, sig)
    \/ \E r \in Reqs : LoginVerify(r)
    \/ \E r \in Reqs : LoginPut(r)
    \/ \E raw \in ClientAddrs : Logout(raw)
    \/ Tick
    \/ \E k \in DOMAIN pending \cup DOMAIN session : Reap(k)

Spec == Init /\ [][Next]_vars

\* ------------------------------------------------------ the store failing
\* ConsumePending fails inside a Login: the Login ends with StoreUnavailable,
\* nothing is tried again; the removal may have happened all the same (applied).
LoginConsumeFails(r, raw, applied) ==
    /\ FirstIdle(r)
    /\ UnifyAddress(raw).err = Nil
    /\ LET c == ConsumePending(UnifyAddress(raw).addr)
       IN  /\ pending' = IF applied THEN c.store ELSE pending
           /\ consumed' = IF applied /\ c.found
                          THEN consumed \cup {c.challenge[1].message.nonce}
                          ELSE consumed
    /\ Finish(r, NoMsg, NoSnap, "StoreUnavailable", 0)
    /\ UNCHANGED <<skew, addrVars, now, session, nextNonce, nextToken, issued,
                   written>>

\* PutSession fails inside a Login, after the token was made: the Login ends
\* with StoreUnavailable, nothing is tried again; the session may have been
\* written all the same (applied).
LoginPutFails(r, applied) ==
    /\ reqs[r].pc = "put"
    /\ LET q == reqs[r]
       IN  /\ session' = IF applied THEN PutSession(q.key, Session(nextToken, now))
                          ELSE session
           /\ written' = IF applied THEN Count(written, q.msg.nonce) ELSE written
           /\ Finish(r, q.msg, q.snap, "StoreUnavailable", 0)
    /\ nextToken' = nextToken + 1
    /\ UNCHANGED <<skew, addrVars, now, pending, nextNonce, issued, consumed>>

\* Challenges are issued, Logins run and time passes, the store failing now
\* and then.  Left out are the signature status, which writes nothing, and
\* Logout and Reap, which take entries away that no Login reads: a session, or
\* a pending challenge that is expired and so absent for ConsumePending.
NextFault ==
    \/ \E raw \in ClientAddrs : GetLoginMessageHandler(raw)
    \/ \E r \in FreeReqs, raw \in ClientAddrs : \E msg \in LoginMsgs(raw) :
          \E sig \in LoginSigs(raw, msg) : LoginStart(r, TRUE, raw, msg, sig)
    \/ \E r \in Reqs : LoginVerify(r)
    \/ \E r \in Reqs : LoginPut(r)
    \/ Tick
    \/ \E r \in FreeReqs, raw \in ClientAddrs, applied \in BOOLEAN :
          LoginConsumeFails(r, raw, applied)
    \/ \E r \in Reqs, applied \in BOOLEAN : LoginPutFails(r, applied)

FaultSpec == Init /\ [][NextFault]_vars

\* ------------------------------------------------- canonicalisation, alone
\* A run of UnifyAddress on one string: once, then again on its own result,
\* then on another spelling of the same string.
Canonicalize ==
    /\ phase = "raw"
    /\ out1' = UnifyAddress(input)
    /\ phase' = "once"
    /\ UNCHANGED <<skew, input, out2, spelt, out3, authVars>>

Recanonicalize ==
    /\ phase = "once"
    /\ out2' = UnifyAddress(out1.addr)
    /\ phase' = "twice"
    /\ UNCHANGED <<skew, input, out1, spelt, out3, authVars>>

Respell(v) ==
    /\ phase = "twice"
    /\ SameLetters(v, input)
    /\ v # input
    /\ spelt' = v
    /\ out3' = UnifyAddress(v)
    /\ phase' = "respelt"
    /\ UNCHANGED <<skew, input, out1, out2, authVars>>

InitAddr ==
    /\ skew \in {{}, ClientBodies}
    /\ input \in RawInputs
    /\ out1 = NoOut
    /\ out2 = NoOut
    /\ spelt = <<>>
    /\ out3 = NoOut
    /\ phase = "raw"
    /\ now = 0
    /\ pending = NoEntries
    /\ session = NoEntries
    /\ nextNonce = 1
    /\ nextToken = 1
    /\ reqs = [r \in Reqs |-> IdleReq]
    /\ resp = NoResp
    /\ issued = {}
    /\ consumed = {}
    /\ granted = [n \in 0..MaxNonce |-> 0]
    /\ written = [n \in 0..MaxNonce |-> 0]

NextAddr ==
    \/ Canonicalize
    \/ Recanonicalize
    \/ \E v \in RawInputs : Respell(v)

AddrSpec == InitAddr /\ [][NextAddr]_vars

\* ===================================================================== claims
IsLogin == resp.op = "login"
Refused == resp.kind = "ChallengeNotFound"
LiveKeys(store) == {k \in DOMAIN store : Live(<<store[k]>>)}
\* A Login is answered in this step.
LoginAnswered == resp' # resp /\ resp'.op = "login"
NoSessionMade == session' = session /\ nextToken' = nextToken

\* C1: of the Login requests that carry one challenge's message, at most one
\* is answered OK; each one whose ConsumePending comes after the challenge was
\* consumed is answered ChallengeNotFound, and the one that consumed it is not.
C1_OneLoginPerChallenge ==
    /\ \A n \in DOMAIN granted : granted[n] <= 1
    /\ IsLogin /\ resp.snap.consumed => Refused
    /\ IsLogin /\ resp.snap.live /\ resp.snap.match => ~Refused
\* A Login with a valid signature is refused while the Login that consumed the
\* same challenge is still in flight.
C1_Witness ==
    /\ IsLogin /\ Refused /\ resp.snap.consumed /\ resp.snap.sigok
    /\ \E r \in Reqs : reqs[r].pc = "put" /\ reqs[r].msg.nonce = resp.nonce

\* C2: a Login that carries a message for which a Login was granted before is
\* answered ChallengeNotFound, and the step that answers it makes no session
\* and no token.
C2_SingleUse ==
    /\ [](IsLogin /\ resp.snap.granted => Refused)
    /\ [][LoginAnswered /\ resp'.snap.granted => NoSessionMade]_vars
C2_Witness == IsLogin /\ resp.snap.granted /\ resp.snap.sigok /\ Refused

GoodSnap(snap) ==
    /\ snap.reached /\ snap.live /\ snap.match
    /\ ~snap.superseded /\ ~snap.consumed /\ ~snap.granted /\ ~snap.expired
C4_NoStaleSuccess ==
    /\ IsLogin /\ resp.kind = "ok" => GoodSnap(resp.snap)
    /\ \A r \in Reqs : reqs[r].pc # "idle" => GoodSnap(reqs[r].snap)
\* The Login won the race: it is answered OK although a new challenge was
\* issued for the address while it was in flight.
C4_Witness ==
    /\ IsLogin /\ resp.kind = "ok"
    /\ \E m \in issued : m.nonce = resp.nonce /\ Superseded(m)

\* C5: a Login that carries a message whose lifetime is over is answered
\* ChallengeNotFound and makes no session, be the entry still in the store
\* or not.
C5_Expiry ==
    /\ [](IsLogin /\ resp.snap.expired => Refused)
    /\ [][LoginAnswered /\ resp'.snap.expired => NoSessionMade]_vars
\* The expired entry was still in the store, and the signature was valid.
C5_Witness ==
    IsLogin /\ Refused /\ resp.snap.expired /\ resp.snap.match /\ resp.snap.sigok

\* C6: a Login that carries a message other than the pending one is answered
\* ChallengeNotFound and makes no session, valid signature or not.
C6_MessageMustMatch ==
    /\ [](IsLogin /\ resp.snap.reached /\ ~resp.snap.match => Refused)
    /\ [][LoginAnswered /\ resp'.snap.reached /\ ~resp'.snap.match
            => NoSessionMade]_vars
\* A live challenge was pending, the message was another one, validly signed.
C6_Witness ==
    IsLogin /\ Refused /\ resp.snap.live /\ ~resp.snap.match /\ resp.snap.sigok

\* C7: for each account, at most one key of the store spells it with a live
\* pending challenge, and at most one with a live session.
Spells(k, b) == ToLower(StripPrefix(k)) = b
C7_AtMostOne ==
    \A b \in ClientBodies :
        /\ Cardinality({k \in LiveKeys(pending) : Spells(k, b)}) <= 1
        /\ Cardinality({k \in LiveKeys(session) : Spells(k, b)}) <= 1
\* An account has a live session and a live challenge, its second one.
C7_Witness ==
    \E k \in LiveKeys(pending) \cap LiveKeys(session) :
        /\ k # <<>>
        /\ \E m \in issued : m.addr = k /\ m.nonce < pending[k].message.nonce

Mismatch(a) ==
    /\ Len(a) > 2 /\ IsHexAddress(a)
    /\ ToCheckSumAddress(a).err = Nil
    /\ ToCheckSumAddress(a).addr # ToValidateAddress(ToCheckSumAddress(a).addr)
C9_MismatchIsAnError ==
    phase # "raw" /\ Mismatch(input) => out1.err # Nil /\ out1.addr = <<>>

WellFormed(s) == Has0xPrefix(s) /\ Len(s) = HexLen + 2 /\ IsHex(StripPrefix(s))
C11_RejectsMalformed ==
    phase # "raw" /\ ~WellFormed(input) => out1.err # Nil /\ out1.addr = <<>>

\* C12: Verify accepts no signature made over a message by one account's key
\* for the canonical address of another account, and no Login is granted, or
\* gets as far as making a session, on a signature made by another key than
\* that of the account its address spells.
CanonicalOf(b) == UnifyAddress(Prefix \o b).addr
C12_SignatureBinding ==
    /\ \A m \in issued \cup {ForgedMsg} : \A a, b \in ClientBodies :
          a # b /\ CanonicalOf(b) # <<>> =>
              Verify(m, [signer |-> a, msg |-> m, ok |-> TRUE], CanonicalOf(b)) # Nil
    /\ IsLogin /\ resp.kind = "ok" => resp.snap.own
    /\ \A r \in Reqs : reqs[r].pc = "put" => reqs[r].snap.own

\* C13: a step of GetSigStatusHandler for a well-formed address answers OK,
\* answers true exactly if a live session is stored for the account the
\* address spells (none made, expired or deleted: false), and changes nothing
\* that is stored.
HasLiveSession(b) == \E k \in LiveKeys(session) : Spells(k, b)
C13_StatusIsLiveness ==
    [][\A raw \in ClientAddrs :
          WellFormed(raw) /\ GetSigStatusHandler(raw) =>
              /\ resp'.kind = "ok"
              /\ resp'.signed = HasLiveSession(AccountOf(raw))
              /\ UNCHANGED <<pending, session, now, nextNonce, nextToken, reqs>>]_vars

\* C14: a Login that carries the message of a live pending challenge asked
\* with a spelling of its address, and a signature made with the key of that
\* address, is answered OK; the step that answers it makes a token and leaves
\* a state in which the signature status of every spelling of the address is
\* true.
C14_EndToEnd ==
    /\ [](IsLogin /\ resp.snap.entitled => resp.kind = "ok")
    /\ [][\A r \in Reqs :
             LoginPut(r) /\ reqs[r].snap.own =>
                 /\ nextToken' > nextToken
                 /\ \A raw \in ClientAddrs :
                       WellFormed(raw) /\ AccountOf(raw) = reqs[r].sig.signer =>
                           GetSigStatusMsg(raw)'.signed]_vars
\* The Login answered OK wrote the address in another letter case than the
\* request for the challenge did, and the status of the address as the request
\* wrote it is true.
C14_Witness ==
    /\ IsLogin /\ resp.kind = "ok" /\ resp.snap.entitled /\ resp.snap.respelt
    /\ \E raw \in ClientAddrs :
          /\ WellFormed(raw) /\ raw = ToLower(raw)
          /\ \E m \in issued : m.nonce = resp.nonce /\ SameLetters(m.addr, raw)
          /\ GetSigStatusMsg(raw).signed

\* C15: with store operations failing inside Logins, and Logins sent again,
\* for each challenge at most one session is ever written and at most one
\* Login answered OK; a challenge is held by at most one Login in flight, by
\* none once its session is written; and a Login sent after the challenge was
\* consumed is answered ChallengeNotFound.
InFlightFor(n) == {r \in Reqs : reqs[r].pc # "idle" /\ reqs[r].msg.nonce = n}
C15_OneSessionAcrossRetries ==
    /\ \A n \in DOMAIN written :
          /\ written[n] <= 1
          /\ granted[n] <= 1
          /\ written[n] + Cardinality(InFlightFor(n)) <= 1
    /\ IsLogin /\ resp.snap.consumed => Refused
\* PutSession failed after writing the session, so no Login was answered OK; the
\* same message with a valid signature, sent again, is refused.
C15_Witness ==
    /\ IsLogin /\ Refused /\ resp.snap.consumed /\ resp.snap.sigok /\ resp.snap.own
    /\ written[resp.nonce] = 1 /\ granted[resp.nonce] = 0

\* C17: whenever a step leaves an address with a live session it did not have
\* before, the step ends a Login for that address with OK: one that consumed
\* the live pending challenge of its message, issued and never consumed before,
\* and whose signature was made with the address's key and accepted by Verify;
\* and a Login answered otherwise than OK leaves every session as it was.
LoginFor(r, raw) ==
    /\ reqs[r].pc = "put"
    /\ GoodSnap(reqs[r].snap) /\ reqs[r].msg \in issued
    /\ reqs[r].snap.own /\ reqs[r].sig.signer = AccountOf(raw)
    /\ Verify(reqs[r].msg, reqs[r].sig, reqs[r].key) = Nil
SessionOf(raw) == GetSession(UnifyAddress(raw).addr)
C17_AuthenticationSafety ==
    [][/\ \A raw \in ClientAddrs :
             /\ WellFormed(raw)
             /\ SessionOf(raw)' # <<>>
             /\ SessionOf(raw)' # SessionOf(raw)
             => \E r \in Reqs : /\ LoginFor(r, raw)
                                /\ reqs'[r] = IdleReq
                                /\ resp'.op = "login" /\ resp'.kind = "ok"
       /\ LoginAnswered /\ resp'.kind # "ok" => session' = session]_vars

\* C18: a step that answers a Login with SignatureInvalid or MalformedSignature
\* makes no session, and leaves the challenge of the Login's message pending
\* under no key; a Login that carries, with the address's own signature, a
\* message consumed before for which no Login was granted is answered
\* ChallengeNotFound.
SignatureErrors == {"SignatureInvalid", "MalformedSignature"}
C18_FailedSignatureBurnsChallenge ==
    /\ [][LoginAnswered /\ resp'.kind \in SignatureErrors =>
             /\ NoSessionMade
             /\ resp'.snap.live /\ resp'.snap.match
             /\ \A k \in DOMAIN pending' :
                   pending'[k].message.nonce # resp'.nonce]_vars
    /\ [](IsLogin /\ resp.snap.consumed /\ ~resp.snap.granted /\ resp.snap.own
             => Refused)
\* The challenge was consumed by a Login that is no more in flight and was not
\* granted; the same message, unexpired and not superseded, is refused with a
\* signature Verify would accept.
C18_Witness ==
    /\ IsLogin /\ Refused /\ resp.snap.consumed /\ ~resp.snap.granted
    /\ resp.snap.own /\ resp.snap.sigok
    /\ ~resp.snap.expired /\ ~resp.snap.superseded
    /\ granted[resp.nonce] = 0 /\ written[resp.nonce] = 0
    /\ InFlightFor(resp.nonce) = {}
====
